---- MODULE Spec2Model ----
(***************************************************************************)
(* PWBot: the lobby manager (cogs/lobby.py) and the ticket mixin           *)
(* (cogs/utils/ticket_mixin.py) as state machines.                         *)
(*                                                                         *)
(* The bot runs on one asyncio event loop: a handler runs without          *)
(* interruption from one await to the next, and other handlers run while   *)
(* it is suspended on a gateway or database call.  Every action below is   *)
(* one such uninterrupted stretch of a handler; a suspended handler is a   *)
(* record in the bag `tasks` (lobby side) or `jobs` (ticket side).  The    *)
(* effect of a gateway call on the chat platform is applied when the call  *)
(* is issued; the handler resumes in a later step.                         *)
(***************************************************************************)
EXTENDS Integers, FiniteSets, Sequences, Bags, TLC

\* ---------------------------------------------------------------- bounds
MaxEvents == 4       \* lobby commands and reactions with an effect
NumUsers == 2        \* users other than the bot
MaxTickets == 2      \* ids drawn from the ticket_id sequence
MaxJobs == 2         \* ticket handlers suspended at the same time

\* ------------------------------------------------------------- constants
client_id == 0                       \* the bot's own user id
Users == 1 .. NumUsers
Authors == {1}                       \* the users who issue commands
MinPlayers == 2
MaxPlayers == 8
PlayerArgs == {1, 2, 9}              \* values of the `players` argument
None == 0                            \* Python's None for a lobby lookup
beta_channel == 1
tournaments_channel == 2
other_channel == 3
Channels == {beta_channel, other_channel}   \* where commands are issued
high5_emoji == 1
other_emoji == 2
Emojis == {high5_emoji, other_emoji}

LobbyIds == 1 .. MaxEvents           \* Lobby objects, in construction order
MessageIds == 1 .. MaxEvents         \* announcement messages, in send order

VARIABLES
    lobbies,      \* LobbyManager.lobbies: the active set (of Lobby objects)
    lobby,        \* the Lobby objects built so far: id -> fields
    built,        \* number of Lobby objects built
    posted,       \* number of announcement messages posted
    reactions,    \* message id -> users whose high5 reaction is on it
    tasks,        \* bag of suspended lobby handlers
    hist,         \* per Lobby: the terminal announcements sent for it
    events,       \* number of events handled that changed the state or sent a reply
    last          \* what the last handler stretch with an effect did

lobbyVars == <<lobbies, lobby, built, posted, reactions, tasks, hist, events, last>>

ticket_type == 0                     \* TicketType.ticket
IssueLimit == 90                     \* characters of the issue that are stored
NoIssue == 0                         \* issue is None (or the empty string)
Issues == {NoIssue, 95}              \* an issue text, by its length
star == 1                            \* WHITE MEDIUM STAR, the opening emoji
anchor == 1                          \* self.message_id
TicketIds == 1 .. MaxTickets
ChannelIds == 1 .. MaxTickets        \* ticket channels, in creation order

VARIABLES
    create_log,   \* TicketMixin.create_log
    ticket_seq,   \* the database sequence ticket_id: its last value
    issued,       \* the values nextval has returned, in order
    made,         \* number of ticket channels the platform has created
    channels,     \* the ticket channels that exist
    tickets,      \* the rows of the table tickets
    names,        \* channel id -> the ticket id at the start of its name
    jobs,         \* bag of suspended ticket handlers
    logged        \* ticket id -> transcript archives sent to the log channel

ticketVars == <<create_log, ticket_seq, issued, made, channels, names, tickets, jobs,
               logged>>

reaction_message == 1                \* settings.reaction_message
other_message == 2                   \* any other message
role_emoji == 1                      \* an emoji the mapping gives a role
null_emoji == 2                      \* an emoji the mapping gives null
absent_emoji == 3                    \* an emoji that is no key of the mapping
member_role == 7                     \* the role of role_emoji

VARIABLES
    role_reactions,  \* the reactions on the two messages: <<message, emoji, user>>
    member_roles,    \* the roles members have: <<user, role>>
    roles_last       \* what the last reaction handler of Roles did

rolesVars == <<role_reactions, member_roles, roles_last>>

MaxHistory == 2                      \* messages in a ticket channel
MaxAttach == 1                       \* attachments of one message
Filenames == {<<"a", ".", "b">>, <<".", "b">>, <<"a">>}   \* a.b  .b  a

VARIABLES
    channel_history, \* the messages of a ticket channel, in the order sent
    archive          \* what _generate_log returned for it (NoLog: not called)

logVars == <<channel_history, archive>>

MaxMessages == 2                     \* messages posted in the lfg channel
MaxRuns == 2                         \* runs of the clearing loop

VARIABLES
    lfg_posted,      \* number of messages posted in the lfg channel so far
    lfg_messages,    \* the messages that are in the lfg channel
    lfg_pins,        \* those of them that are pinned
    lfg_runs,        \* runs of clear_lfg_channel started so far
    janitor          \* the run of clear_lfg_channel: where it is, what it holds

lfgVars == <<lfg_posted, lfg_messages, lfg_pins, lfg_runs, janitor>>

cogVars == <<rolesVars, logVars, lfgVars>>
vars == <<lobbyVars, ticketVars, cogVars>>

\* ------------------------------------------------------------ bag helpers
One(t) == SetToBag({t})
Suspended == BagToSet(tasks)
Spawn(t) == tasks (+) One(t)
Resume(t, t2) == (tasks (-) One(t)) (+) One(t2)
Finish(t) == tasks (-) One(t)
Event == events < MaxEvents /\ events' = events + 1

\* ------------------------------------------------------- the Lobby object
NoLobby == [owner_id |-> 0, required_players |-> 0, message |-> 0,
            players |-> {}, timeout |-> "none"]
NoHist == [full_sent |-> 0, disband_sent |-> 0]
\* What the last handler stretch was: the handler, the acting user, the
\* message or lobby it was about, the message it sent to the invoking channel
\* and the exception it raised.
Did(op, who, arg, sent, raised) ==
    [op |-> op, who |-> who, arg |-> arg, sent |-> sent, raised |-> raised]
Idle == Did("init", 0, 0, "none", "none")

\* Lobby.__init__: players starts as {owner_id}; the timeout task is created
\* and sleeps.
NewLobby(owner_id, message, required_players) ==
    [owner_id |-> owner_id, required_players |-> required_players,
     message |-> message, players |-> {owner_id}, timeout |-> "sleeping"]

\* LobbyManager.get_lobby_by_owner: the first lobby of the set's iteration
\* order whose owner matches, None when there is none.  The iteration order
\* of a Python set of objects is arbitrary, so the result is any member of
\* the set returned here.
get_lobby_by_owner(owner_id) ==
    LET found == {l \in lobbies : lobby[l].owner_id = owner_id}
    IN  IF found = {} THEN {None} ELSE found

\* LobbyManager.get_lobby_by_message
get_lobby_by_message(message_id) ==
    LET found == {l \in lobbies : lobby[l].message = message_id}
    IN  IF found = {} THEN {None} ELSE found

\* lobby_channel_only: the check on the lobby commands
lobby_channel_only(channel) == channel \in {beta_channel, tournaments_channel}

LobbyInit ==
    /\ lobbies = {}
    /\ lobby = [l \in LobbyIds |-> NoLobby]
    /\ built = 0
    /\ posted = 0
    /\ reactions = [m \in MessageIds |-> {}]
    /\ tasks = EmptyBag
    /\ hist = [l \in LobbyIds |-> NoHist]
    /\ events = 0
    /\ last = Idle

\* LobbyCommand without the owner lookup of line 184: the range check and the
\* announcement only.
LobbyCommand_NoLookup(author, channel, players) ==
    /\ lobby_channel_only(channel)
    /\ IF players < MinPlayers \/ players > MaxPlayers
       THEN UNCHANGED lobbyVars
       ELSE /\ Event
            /\ last' = Did("lobby", author, players, "announce", "none")
            /\ posted' = posted + 1
            /\ tasks' = Spawn([kind |-> "lobby", pc |-> "send", lobby |-> 0,
                               author |-> author, players |-> players,
                               message |-> posted + 1])
            /\ UNCHANGED <<lobbies, lobby, built, reactions, hist>>

\* The lobby command without the range check of lines 189-190
LobbyCommand_NoRange(author, channel, players) ==
    /\ lobby_channel_only(channel)
    /\ \E found \in get_lobby_by_owner(author) :
         IF found # None
         THEN /\ Event
              /\ last' = Did("lobby", author, players, "reject", "none")
              /\ UNCHANGED <<lobbies, lobby, built, posted, reactions, tasks, hist>>
         ELSE /\ Event
              /\ last' = Did("lobby", author, players, "announce", "none")
              /\ posted' = posted + 1
              /\ tasks' = Spawn([kind |-> "lobby", pc |-> "send", lobby |-> 0,
                                 author |-> author, players |-> players,
                                 message |-> posted + 1])
              /\ UNCHANGED <<lobbies, lobby, built, reactions, hist>>

\* ------------------------------------------------- LobbyManager.lobby
\* First stretch: the owner lookup, the range check, and the announcement
\* message handed to ctx.send.
LobbyCommand(author, channel, players) ==
    /\ lobby_channel_only(channel)
    /\ \E found \in get_lobby_by_owner(author) :
         IF found # None
         THEN \* 'Please disband your old lobby before opening a new one.'
              /\ Event
              /\ last' = Did("lobby", author, players, "reject", "none")
              /\ UNCHANGED <<lobbies, lobby, built, posted, reactions, tasks, hist>>
         ELSE IF players < MinPlayers \/ players > MaxPlayers
         THEN UNCHANGED lobbyVars
         ELSE /\ Event
              /\ last' = Did("lobby", author, players, "announce", "none")
              /\ posted' = posted + 1
              /\ tasks' = Spawn([kind |-> "lobby", pc |-> "send", lobby |-> 0,
                                 author |-> author, players |-> players,
                                 message |-> posted + 1])
              /\ UNCHANGED <<lobbies, lobby, built, reactions, hist>>

\* Second stretch, after ctx.send returned the message: the Lobby is built
\* and added to the set, and the bot's join reaction is put on the message.
LobbyCommandAdd(t) ==
    /\ t.kind = "lobby" /\ t.pc = "send"
    /\ built' = built + 1
    /\ lobby' = [lobby EXCEPT ![built + 1] = NewLobby(t.author, t.message, t.players)]
    /\ lobbies' = lobbies \cup {built + 1}
    /\ reactions' = [reactions EXCEPT ![t.message] = @ \cup {client_id}]
    /\ tasks' = Finish(t)
    /\ last' = Did("lobby_add", t.author, built + 1, "none", "none")
    /\ UNCHANGED <<posted, hist, events>>

\* ------------------------------------------------------- Lobby.disband
\* Lobby.timeout.cancel(): a sleeping task is cancelled; a task that has
\* finished is left as it is.
Cancel(state) == IF state = "sleeping" THEN "cancelled" ELSE state

\* Lobby.disband() from self.manager.lobbies.remove(self) on.  The removal is
\* the only access to the manager's state; what follows it (clear_reactions,
\* the message to the owner, the embed edit) only issues gateway calls, so
\* the three calls are taken together with the removal.
Disbanded(l) ==
    /\ lobbies' = lobbies \ {l}
    /\ reactions' = [reactions EXCEPT ![lobby[l].message] = {}]
    /\ hist' = [hist EXCEPT ![l].disband_sent = @ + 1]

\* LobbyManager.lobby_disband: the owner lookup, then Lobby.disband() with
\* its timer cancel.
LobbyDisband(author, channel) ==
    /\ lobby_channel_only(channel)
    /\ \E found \in get_lobby_by_owner(author) :
         IF found = None
         THEN UNCHANGED lobbyVars
         ELSE /\ Event
              /\ lobby' = [lobby EXCEPT ![found].timeout = Cancel(@)]
              /\ Disbanded(found)
              /\ last' = Did("disband", author, found, "none", "none")
              /\ UNCHANGED <<built, posted, tasks>>

\* The timeout task wakes up and ends without disbanding the lobby.
TimeoutFire_NoDisband(l) ==
    /\ l \in 1 .. built
    /\ lobby[l].timeout = "sleeping"
    /\ lobby' = [lobby EXCEPT ![l].timeout = "done"]
    /\ last' = Did("timeout", 0, l, "none", "none")
    /\ UNCHANGED <<lobbies, reactions, hist, built, posted, tasks, events>>

\* The timeout task of Lobby.__init__ wakes up and runs disband(timeout=True):
\* no cancel, then self.manager.lobbies.remove(self), which raises KeyError
\* when the lobby is not in the set.
TimeoutFire(l) ==
    /\ l \in 1 .. built
    /\ lobby[l].timeout = "sleeping"
    /\ IF l \in lobbies
       THEN /\ Disbanded(l)
            /\ lobby' = [lobby EXCEPT ![l].timeout = "done"]
            /\ last' = Did("timeout", 0, l, "none", "none")
       ELSE /\ lobby' = [lobby EXCEPT ![l].timeout = "raised"]
            /\ last' = Did("timeout", 0, l, "none", "KeyError")
            /\ UNCHANGED <<lobbies, reactions, hist>>
    /\ UNCHANGED <<built, posted, tasks, events>>

\* ------------------------------------------------------ reaction events
\* A raw reaction payload.  Announcements are posted where the command was
\* issued.  Message 0 stands for the messages that are not announcements; it
\* is in another channel.  The payloads the listeners ignore are one of the
\* bot's own reactions and one reaction with another emoji per announcement.
Payloads ==
    [channel_id : {beta_channel}, user_id : Users \cup {client_id},
     emoji : {high5_emoji}, message_id : MessageIds]
    \cup [channel_id : {beta_channel}, user_id : {1},
          emoji : {other_emoji}, message_id : MessageIds]
    \cup [channel_id : {other_channel}, user_id : {1},
          emoji : {high5_emoji}, message_id : {0}]

\* The lobby of the announcement has left the active set.
Ended(message_id) ==
    \E l \in 1 .. built : lobby[l].message = message_id /\ l \notin lobbies

\* The reactions the model keeps track of: those of the users with the join
\* emoji on an announcement whose lobby has not ended.  On any other message
\* both listeners return without doing anything.
Tracked(p) ==
    /\ p.emoji = high5_emoji /\ p.user_id # client_id
    /\ p.message_id # 0 /\ ~Ended(p.message_id)

Delivered(p) == p.message_id <= posted

\* The three early returns shared by both reaction listeners.
Ignored(p) ==
    \/ p.channel_id \notin {beta_channel, tournaments_channel}
    \/ p.user_id = client_id
    \/ p.emoji # high5_emoji

\* The platform's reaction list of the payload's message after the event.
Reacted(p, add) ==
    IF Tracked(p)
    THEN [reactions EXCEPT ![p.message_id] =
              IF add THEN @ \cup {p.user_id} ELSE @ \ {p.user_id}]
    ELSE reactions

\* LobbyManager.on_raw_reaction_add, up to its first await.
OnRawReactionAdd(p) ==
    /\ Delivered(p)
    /\ Tracked(p) => p.user_id \notin reactions[p.message_id]
    /\ IF Tracked(p) THEN Event ELSE UNCHANGED events
    /\ UNCHANGED <<built, posted, hist>>
    /\ IF Ignored(p)
       THEN UNCHANGED <<lobbies, lobby, reactions, tasks, last>>
       ELSE \E found \in get_lobby_by_message(p.message_id) :
         IF found = None
         THEN /\ reactions' = Reacted(p, TRUE)
              /\ last' = IF Tracked(p) THEN Did("add", p.user_id, None, "none", "none")
                                       ELSE last
              /\ UNCHANGED <<lobbies, lobby, tasks>>
         ELSE IF p.user_id = lobby[found].owner_id
                 /\ lobby[found].owner_id \in lobby[found].players
         THEN \* remove_own_reaction: the bot's reaction is taken off
              /\ reactions' = [Reacted(p, TRUE) EXCEPT ![p.message_id] = @ \ {client_id}]
              /\ last' = Did("add_owner", p.user_id, found, "none", "none")
              /\ UNCHANGED <<lobbies, lobby, tasks>>
         ELSE LET joined == lobby[found].players \cup {p.user_id}
              IN /\ lobby' = [lobby EXCEPT ![found].players = joined]
                 /\ UNCHANGED lobbies
                 /\ IF Cardinality(joined) = 1
                    THEN /\ reactions' = [Reacted(p, TRUE) EXCEPT
                                             ![p.message_id] = @ \ {client_id}]
                         /\ last' = Did("add_first", p.user_id, found, "none", "none")
                         /\ UNCHANGED tasks
                    ELSE IF lobby[found].required_players = Cardinality(joined)
                    THEN \* lobby.message.clear_reactions()
                                    /\ reactions' = [reactions EXCEPT ![p.message_id] = {}]
                         /\ tasks' = Spawn([kind |-> "full", pc |-> "clear_reactions",
                                            lobby |-> found, author |-> p.user_id,
                                            players |-> 0, message |-> p.message_id])
                         /\ last' = Did("add_full", p.user_id, found, "none", "none")
                    ELSE /\ reactions' = Reacted(p, TRUE)
                         /\ last' = Did("add_join", p.user_id, found, "none", "none")
                         /\ UNCHANGED tasks

\* on_raw_reaction_add after clear_reactions returned: the fullness
\* announcement is sent; after it returned, self.lobbies.remove(lobby), which
\* raises KeyError when the lobby is not in the set, and the embed edit.
FullStep(t) ==
    /\ t.kind = "full"
    /\ \/ /\ t.pc = "clear_reactions"
          /\ hist' = [hist EXCEPT ![t.lobby].full_sent = @ + 1]
          /\ tasks' = Resume(t, [t EXCEPT !.pc = "send"])
          /\ last' = Did("full_send", 0, t.lobby, "none", "none")
          /\ UNCHANGED <<lobbies, reactions>>
       \/ /\ t.pc = "send"
          /\ t.lobby \in lobbies
          /\ lobbies' = lobbies \ {t.lobby}
          /\ reactions' = [reactions EXCEPT ![t.message] = {}]
          /\ tasks' = Finish(t)
          /\ UNCHANGED hist
          /\ last' = Did("full_remove", 0, t.lobby, "none", "none")
       \/ /\ t.pc = "send"
          /\ t.lobby \notin lobbies
          /\ tasks' = Finish(t)
          /\ UNCHANGED hist
          /\ last' = Did("full_remove", 0, t.lobby, "none", "KeyError")
          /\ UNCHANGED <<lobbies, reactions>>
    /\ UNCHANGED <<lobby, built, posted, events>>

\* LobbyManager.on_raw_reaction_remove: set.remove raises KeyError when the
\* user is not in players; the bot's reaction is put back when players is
\* empty.
OnRawReactionRemove(p) ==
    /\ Delivered(p)
    /\ Tracked(p) => p.user_id \in reactions[p.message_id]
    /\ IF Tracked(p) THEN Event ELSE UNCHANGED events
    /\ UNCHANGED <<lobbies, built, posted, hist, tasks>>
    /\ IF Ignored(p)
       THEN UNCHANGED <<lobby, reactions, last>>
       ELSE \E found \in get_lobby_by_message(p.message_id) :
         IF found = None
         THEN /\ reactions' = Reacted(p, FALSE)
              /\ last' = IF Tracked(p) THEN Did("remove", p.user_id, None, "none", "none")
                                       ELSE last
              /\ UNCHANGED lobby
         ELSE IF p.user_id \notin lobby[found].players
         THEN /\ reactions' = Reacted(p, FALSE)
              /\ last' = Did("remove", p.user_id, found, "none", "KeyError")
              /\ UNCHANGED lobby
         ELSE LET left == lobby[found].players \ {p.user_id}
              IN /\ lobby' = [lobby EXCEPT ![found].players = left]
                 /\ reactions' = IF left = {}
                                 THEN [Reacted(p, FALSE) EXCEPT
                                          ![p.message_id] = @ \cup {client_id}]
                                 ELSE Reacted(p, FALSE)
                 /\ last' = Did("remove", p.user_id, found, "none", "none")

\* ------------------------------------------------------ lobby specification
TicketInit(log) ==
    /\ create_log = log
    /\ ticket_seq = 0
    /\ issued = << >>
    /\ made = 0
    /\ channels = {}
    /\ names = [c \in ChannelIds |-> 0]
    /\ tickets = {}
    /\ jobs = EmptyBag
    /\ logged = [i \in TicketIds |-> 0]

\* ------------------------------------------------------------------ roles
\* Roles.roles: the mapping of emoji ids to role ids (settings.roles).
roles == [e \in {role_emoji, null_emoji} |->
             IF e = role_emoji THEN member_role ELSE None]

RolesDid(op, message, emoji, user, call, raised) ==
    [op |-> op, message |-> message, emoji |-> emoji, user |-> user,
     call |-> call, raised |-> raised]

RolesInit ==
    /\ role_reactions = {}
    /\ member_roles = {}
    /\ roles_last = RolesDid("init", 0, 0, 0, "none", "none")

\* The raw reaction events the gateway delivers to Roles: any user with any
\* emoji on the reaction message, user 1 with the role emoji elsewhere.
RolePayloads ==
    [message_id : {reaction_message}, emoji : {role_emoji, null_emoji, absent_emoji},
     user_id : Users]
    \cup [message_id : {other_message}, emoji : {role_emoji}, user_id : {1}]

Reaction(p) == <<p.message_id, p.emoji, p.user_id>>

\* Roles.on_raw_reaction_add: the user's reaction is on the message when the
\* handler runs.  Another message: return.  self.roles[...] raises KeyError
\* for an emoji that is no key.  A null role: the reaction is taken off.
\* Otherwise the role is given.
RolesOnRawReactionAdd(p) ==
    /\ Reaction(p) \notin role_reactions
    /\ IF p.message_id # reaction_message
       THEN /\ role_reactions' = role_reactions \cup {Reaction(p)}
            /\ roles_last' = RolesDid("add", p.message_id, p.emoji, p.user_id, "none", "none")
            /\ UNCHANGED member_roles
       ELSE IF p.emoji \notin DOMAIN roles
       THEN /\ role_reactions' = role_reactions \cup {Reaction(p)}
            /\ roles_last' = RolesDid("add", p.message_id, p.emoji, p.user_id, "none", "KeyError")
            /\ UNCHANGED member_roles
       ELSE IF roles[p.emoji] = None
       THEN /\ role_reactions' = role_reactions \ {Reaction(p)}
            /\ roles_last' = RolesDid("add", p.message_id, p.emoji, p.user_id,
                                      "remove_reaction", "none")
            /\ UNCHANGED member_roles
       ELSE /\ role_reactions' = role_reactions \cup {Reaction(p)}
            /\ member_roles' = member_roles \cup {<<p.user_id, roles[p.emoji]>>}
            /\ roles_last' = RolesDid("add", p.message_id, p.emoji, p.user_id,
                                      "add_role", "none")

\* Roles.on_raw_reaction_remove: the user's reaction has left the message.
\* Another message or a null role: return.  Otherwise the role is taken away.
RolesOnRawReactionRemove(p) ==
    /\ Reaction(p) \in role_reactions
    /\ role_reactions' = role_reactions \ {Reaction(p)}
    /\ IF p.message_id # reaction_message
       THEN /\ roles_last' = RolesDid("remove", p.message_id, p.emoji, p.user_id, "none", "none")
            /\ UNCHANGED member_roles
       ELSE IF p.emoji \notin DOMAIN roles
       THEN /\ roles_last' = RolesDid("remove", p.message_id, p.emoji, p.user_id,
                                      "none", "KeyError")
            /\ UNCHANGED member_roles
       ELSE IF roles[p.emoji] = None
       THEN /\ roles_last' = RolesDid("remove", p.message_id, p.emoji, p.user_id, "none", "none")
            /\ UNCHANGED member_roles
       ELSE /\ member_roles' = member_roles \ {<<p.user_id, roles[p.emoji]>>}
            /\ roles_last' = RolesDid("remove", p.message_id, p.emoji, p.user_id,
                                      "remove_role", "none")

\* ------------------------------------------------------------- transcript
\* A text is modelled by its lines: the pieces between its line breaks.
SeqsUpTo(S, n) == UNION {[1 .. k -> S] : k \in 0 .. n}

\* A message: the line breaks in its content and its attachments' filenames.
Contents == [newlines : {0, 1}, attachments : SeqsUpTo(Filenames, MaxAttach)]

\* The histories of a channel: the i-th message sent has id i.
Histories ==
    {[i \in 1 .. Len(c) |-> [id |-> i, newlines |-> c[i].newlines,
                             attachments |-> c[i].attachments]] :
        c \in SeqsUpTo(Contents, MaxHistory)}

NoLog == [transcript |-> << >>, entries |-> << >>, made |-> FALSE]

LogIdle == channel_history = << >> /\ archive = NoLog
LogInit == channel_history \in Histories /\ archive = NoLog

\* f"""Transcript of ticket {id} "{issue}":\n""": a text of two lines, the
\* second empty.
Header == <<[message |-> 0, part |-> 1], [message |-> 0, part |-> 2]>>

\* "[{2}] {0.author} ({0.author.id}){1}: {0.content}".format(...) for the
\* message: a text with the line breaks of the content.
Formatted(message) ==
    [p \in 1 .. message.newlines + 1 |-> [message |-> message.id, part |-> p]]

\* '\n'.join(texts): the lines of the texts one after the other
RECURSIVE Join(_)
Join(texts) ==
    IF texts = << >> THEN << >> ELSE Head(texts) \o Join(Tail(texts))

\* os.path.splitext(filename)[1]: from the last dot on, when a character
\* other than a dot stands before it; else empty.
Splitext(filename) ==
    LET dots == {i \in 1 .. Len(filename) : filename[i] = "."}
        dotIndex == IF dots = {} THEN 0 ELSE CHOOSE i \in dots : \A k \in dots : k <= i
    IN  IF \E k \in 1 .. dotIndex - 1 : filename[k] # "."
        THEN SubSeq(filename, dotIndex, Len(filename))
        ELSE << >>

\* channel.history(oldest_first=True), as the wrong order would give it
History_NewestFirst(h) == [i \in 1 .. Len(h) |-> h[Len(h) + 1 - i]]

\* channel.history(oldest_first=True)
History(h) == h

\* the loop of _generate_log over the history: attachments.extend(...)
RECURSIVE Extended(_)
Extended(h) ==
    IF h = << >> THEN << >> ELSE Head(h).attachments \o Extended(Tail(h))

\* TicketMixin._generate_log: the entries of the archive, in the order they
\* are written, and the lines of transcript.txt.
GenerateLog(channel) ==
    LET h == History(channel)
        messages == <<Header>> \o [i \in 1 .. Len(h) |-> Formatted(h[i])]
        attachments == Extended(h)
    IN  [transcript |-> Join(messages),
         entries |-> [index \in 1 .. Len(attachments) |->
                         [index |-> index - 1, ext |-> Splitext(attachments[index])]],
         made |-> TRUE]

GenerateLogStep ==
    /\ archive = NoLog
    /\ archive' = GenerateLog(channel_history)
    /\ UNCHANGED channel_history

\* -------------------------------------------------------------------- lfg
\* The loop between two runs; pins and seen are the locals of a run.
Asleep(outcome) == [pc |-> "sleep", pins |-> {}, seen |-> {}, todo |-> {},
                    outcome |-> outcome]

LfgInit ==
    /\ lfg_posted = 0
    /\ lfg_messages = {}
    /\ lfg_pins = {}
    /\ lfg_runs = 0
    /\ janitor = Asleep("none")

\* The members of the guild: a message is posted, pinned or unpinned.
LfgPost ==
    /\ lfg_posted < MaxMessages
    /\ lfg_posted' = lfg_posted + 1
    /\ lfg_messages' = lfg_messages \cup {lfg_posted + 1}
    /\ UNCHANGED <<lfg_pins, lfg_runs, janitor>>

LfgPin(m) ==
    /\ m \in lfg_messages \ lfg_pins
    /\ lfg_pins' = lfg_pins \cup {m}
    /\ UNCHANGED <<lfg_posted, lfg_messages, lfg_runs, janitor>>

LfgUnpin(m) ==
    /\ m \in lfg_pins
    /\ lfg_pins' = lfg_pins \ {m}
    /\ UNCHANGED <<lfg_posted, lfg_messages, lfg_runs, janitor>>

\* LFG.clear_lfg_channel, started by the loop every 24 hours: get_channel
\* gives the channel or None; with None the run returns, else guild.chunk()
\* is awaited.
ClearLfgChannel(resolves) ==
    /\ janitor.pc = "sleep"
    /\ lfg_runs < MaxRuns
    /\ lfg_runs' = lfg_runs + 1
    /\ janitor' = IF resolves THEN [Asleep("running") EXCEPT !.pc = "chunk"]
                              ELSE Asleep("unresolved")
    /\ UNCHANGED <<lfg_posted, lfg_messages, lfg_pins>>

\* chunk() returned: pins = await channel.pins() asks for the pinned messages
ClearPins ==
    /\ janitor.pc = "chunk"
    /\ janitor' = [janitor EXCEPT !.pc = "pins", !.pins = lfg_pins]
    /\ UNCHANGED <<lfg_posted, lfg_messages, lfg_pins, lfg_runs>>

\* channel.purge(limit=None, check=check) reads the history of the channel
ClearHistory ==
    /\ janitor.pc = "pins"
    /\ janitor' = [janitor EXCEPT !.pc = "purge", !.seen = lfg_messages,
                                  !.todo = lfg_messages]
    /\ UNCHANGED <<lfg_posted, lfg_messages, lfg_pins, lfg_runs>>

\* check(msg): msg not in pins, the list fetched before the purge
check(msg) == msg \notin janitor.pins

\* purge comes to a message of the history: it is deleted when check holds
ClearPurge(m) ==
    /\ janitor.pc = "purge"
    /\ m \in janitor.todo
    /\ janitor' = [janitor EXCEPT !.todo = @ \ {m}]
    /\ IF check(m)
       THEN /\ lfg_messages' = lfg_messages \ {m}
            /\ lfg_pins' = lfg_pins \ {m}
       ELSE UNCHANGED <<lfg_messages, lfg_pins>>
    /\ UNCHANGED <<lfg_posted, lfg_runs>>

\* purge returned: the run is over, the loop sleeps until the next run
ClearDone ==
    /\ janitor.pc = "purge"
    /\ janitor.todo = {}
    /\ janitor' = [Asleep("done") EXCEPT !.seen = janitor.seen]
    /\ UNCHANGED <<lfg_posted, lfg_messages, lfg_pins, lfg_runs>>

\* The other cogs at rest.
CogsInit == RolesInit /\ LogIdle /\ LfgInit

Init == LobbyInit /\ CogsInit /\ \E log \in BOOLEAN : TicketInit(log)

\* The lobby manager on its own: no ticket is opened or closed.
LobbyStart == LobbyInit /\ CogsInit /\ TicketInit(TRUE)

LobbyNext ==
    \/ \E author \in Authors, channel \in Channels, players \in PlayerArgs :
          LobbyCommand(author, channel, players) /\ UNCHANGED <<ticketVars, cogVars>>
    \/ \E t \in Suspended : LobbyCommandAdd(t) /\ UNCHANGED <<ticketVars, cogVars>>
    \/ \E author \in Authors, channel \in Channels :
          LobbyDisband(author, channel) /\ UNCHANGED <<ticketVars, cogVars>>
    \/ \E l \in LobbyIds : TimeoutFire(l) /\ UNCHANGED <<ticketVars, cogVars>>
    \/ \E p \in Payloads : OnRawReactionAdd(p) /\ UNCHANGED <<ticketVars, cogVars>>
    \/ \E t \in Suspended : FullStep(t) /\ UNCHANGED <<ticketVars, cogVars>>
    \/ \E p \in Payloads : OnRawReactionRemove(p) /\ UNCHANGED <<ticketVars, cogVars>>

LobbySpec == LobbyStart /\ [][LobbyNext]_vars

TypeOK ==
    /\ lobbies \subseteq 1 .. built
    /\ built <= posted /\ posted <= events /\ events <= MaxEvents
    /\ BagCardinality(tasks) <= MaxEvents

\* ================================================================ tickets
JobsRoom == BagCardinality(jobs) < MaxJobs
Min(a, b) == IF a <= b THEN a ELSE b

NoRecord == [id |-> 0, channel_id |-> 0, author_id |-> 0, type |-> 0, issue |-> NoIssue]
Job(kind, pc, author, issue, ticket_id, channel, record) ==
    [kind |-> kind, pc |-> pc, author |-> author, issue |-> issue,
     ticket_id |-> ticket_id, channel |-> channel, record |-> record]

\* SELECT nextval('ticket_id'): the sequence advances by one and the new value
\* is returned.
NextVal_Stale(seq) == IF seq = 0 THEN 1 ELSE seq
NextVal(seq) == seq + 1

\* issue[:90] if issue else None
\* issue if issue else None: the text stored whole
Stored_Whole(issue) == issue

\* issue[:90] if issue else None
Stored(issue) == IF issue # NoIssue THEN Min(issue, IssueLimit) ELSE NoIssue

\* TicketMixin._create_ticket up to its first await: nextval is sent to the
\* database.
CreateTicket(author, issue) ==
    /\ ticket_seq < MaxTickets
    /\ JobsRoom
    /\ ticket_seq' = NextVal(ticket_seq)
    /\ issued' = Append(issued, NextVal(ticket_seq))
    /\ jobs' = jobs (+) One(Job("create", "nextval", author, issue,
                                NextVal(ticket_seq), 0, NoRecord))
    /\ UNCHANGED <<create_log, made, channels, names, tickets, logged>>

\* TicketMixin.on_open_command: the command message is deleted, then the
\* ticket is created with the issue given.
OnOpenCommand(author, issue) == CreateTicket(author, issue)

\* TicketMixin.on_reaction: a reaction on another message is ignored; on the
\* anchor message it is removed, and the star opens a ticket without issue.
OnReaction(message_id, emoji, member) ==
    IF message_id # anchor \/ emoji # star
    THEN UNCHANGED ticketVars
    ELSE CreateTicket(member, NoIssue)

\* _create_ticket after nextval returned: create_text_channel, which creates
\* the channel named '<ticket_id>-<issue or type>' or raises.
CreateTextChannel(j) ==
    /\ j.kind = "create" /\ j.pc = "nextval"
    /\ \/ /\ made' = made + 1
          /\ channels' = channels \cup {made + 1}
          /\ names' = [names EXCEPT ![made + 1] = j.ticket_id]
          /\ jobs' = (jobs (-) One(j)) (+)
                     One([j EXCEPT !.pc = "create_text_channel", !.channel = made + 1])
       \/ /\ jobs' = jobs (-) One(j)
          /\ UNCHANGED <<made, channels, names>>
    /\ UNCHANGED <<create_log, ticket_seq, issued, tickets, logged>>

\* _create_ticket after the channel was created: the INSERT, which adds the
\* row or raises; after it the opening message is sent to the channel.
InsertTicket(j) ==
    /\ j.kind = "create" /\ j.pc = "create_text_channel"
    /\ \/ tickets' = tickets \cup
                       {[id |-> j.ticket_id, channel_id |-> j.channel,
                         author_id |-> j.author, type |-> ticket_type,
                         issue |-> Stored(j.issue)]}
       \/ UNCHANGED tickets
    /\ jobs' = jobs (-) One(j)
    /\ UNCHANGED <<create_log, ticket_seq, issued, made, channels, names, logged>>

\* SELECT * from tickets WHERE channel_id=$1
FetchRow(channel) ==
    LET rows == {r \in tickets : r.channel_id = channel}
    IN  IF rows = {} THEN {NoRecord} ELSE rows

\* TicketMixin.on_close_command up to its first await: the row of the channel
\* is asked from the database.  Channel 0 is a channel that is not a ticket
\* channel.
OnCloseCommand(channel) ==
    /\ channel \in channels \cup {0}
    /\ JobsRoom
    /\ \E record \in FetchRow(channel) :
          jobs' = jobs (+) One(Job("close", "fetchrow", 0, NoIssue, 0, channel, record))
    /\ UNCHANGED <<create_log, ticket_seq, issued, made, channels, names, tickets, logged>>

\* ctx.channel.delete(reason=reason): raises NotFound when the channel has
\* been deleted already.
Deleted(channel) == channels \ {channel}

\* on_close_command without the return of lines 128-129: a close on a channel
\* that has no row goes on to delete the channel.
CloseStep_NoCheck(j) ==
    /\ j.kind = "close"
    /\ \/ /\ j.pc = "fetchrow" /\ j.record # NoRecord /\ create_log
          /\ jobs' = IF j.channel \in channels
                     THEN (jobs (-) One(j)) (+) One([j EXCEPT !.pc = "history"])
                     ELSE jobs (-) One(j)
          /\ UNCHANGED <<channels, logged>>
       \/ /\ j.pc = "history"
          /\ logged' = [logged EXCEPT ![j.record.id] = @ + 1]
          /\ jobs' = (jobs (-) One(j)) (+) One([j EXCEPT !.pc = "send"])
          /\ UNCHANGED channels
       \/ /\ \/ j.pc = "send"
             \/ j.pc = "fetchrow" /\ (j.record = NoRecord \/ ~create_log)
          /\ channels' = Deleted(j.channel)
          /\ jobs' = jobs (-) One(j)
          /\ UNCHANGED logged
    /\ UNCHANGED <<create_log, ticket_seq, issued, made, names, tickets>>

\* on_close_command after the row arrived.  Without a row it returns.  With
\* create_log the history of the channel is read (NotFound when the channel
\* is gone), then the archive is sent to the log channel, then the channel is
\* deleted; without create_log the channel is deleted at once.
CloseStep(j) ==
    /\ j.kind = "close"
    /\ \/ /\ j.pc = "fetchrow" /\ j.record = NoRecord
          /\ jobs' = jobs (-) One(j)
          /\ UNCHANGED <<channels, logged>>
       \/ /\ j.pc = "fetchrow" /\ j.record # NoRecord /\ create_log
          /\ jobs' = IF j.channel \in channels
                     THEN (jobs (-) One(j)) (+) One([j EXCEPT !.pc = "history"])
                     ELSE jobs (-) One(j)
          /\ UNCHANGED <<channels, logged>>
       \/ /\ j.pc = "history"
          /\ logged' = [logged EXCEPT ![j.record.id] = @ + 1]
          /\ jobs' = (jobs (-) One(j)) (+) One([j EXCEPT !.pc = "send"])
          /\ UNCHANGED channels
       \/ /\ \/ j.pc = "send"
             \/ j.pc = "fetchrow" /\ j.record # NoRecord /\ ~create_log
          /\ channels' = Deleted(j.channel)
          /\ jobs' = jobs (-) One(j)
          /\ UNCHANGED logged
    /\ UNCHANGED <<create_log, ticket_seq, issued, made, names, tickets>>

TicketNext ==
    \/ \E author \in Authors, issue \in Issues :
          OnOpenCommand(author, issue) /\ UNCHANGED <<lobbyVars, cogVars>>
    \/ \E message_id \in {anchor, 0}, emoji \in {star, 0}, member \in Authors :
          OnReaction(message_id, emoji, member) /\ UNCHANGED <<lobbyVars, cogVars>>
    \/ \E j \in BagToSet(jobs) : CreateTextChannel(j) /\ UNCHANGED <<lobbyVars, cogVars>>
    \/ \E j \in BagToSet(jobs) : InsertTicket(j) /\ UNCHANGED <<lobbyVars, cogVars>>
    \/ \E channel \in ChannelIds \cup {0} : OnCloseCommand(channel) /\ UNCHANGED <<lobbyVars, cogVars>>
    \/ \E j \in BagToSet(jobs) : CloseStep(j) /\ UNCHANGED <<lobbyVars, cogVars>>

TicketSpec == Init /\ [][TicketNext]_vars

\* ================================================================ lobbies
Built == 1 .. built

\* C1: once a lobby has become full, its fullness announcement is sent exactly
\* once, whatever reaction events are handled while the fullness handler is
\* suspended: no lobby ever has a second fullness announcement.
C1_FullAnnouncedOnce == \A l \in Built : hist[l].full_sent <= 1

\* C2: a lobby that has left the active set (manual disband, full, timeout)
\* has no pending expiry timer, and its timer has not raised.
C2_NoTimerAfterEnd ==
    \A l \in Built : l \notin lobbies => lobby[l].timeout \in {"cancelled", "done"}

\* C3: of the end-of-life triggers of one lobby (the disband command, the
\* timer, the fullness handler) one removes it and every other one is a no-op:
\* none raises on the removal, and a lobby never gets both a fullness and a
\* disband announcement.
C3_OtherTriggersNoOp ==
    /\ ~(last.op \in {"timeout", "full_remove"} /\ last.raised = "KeyError")
    /\ \A l \in Built : ~(hist[l].full_sent > 0 /\ hist[l].disband_sent > 0)

\* C4: the active set never holds two lobbies of the same owner.
C4_OneLobbyPerOwner ==
    \A l1 \in lobbies, l2 \in lobbies :
        lobby[l1].owner_id = lobby[l2].owner_id => l1 = l2

\* C5: while a lobby is tracked and has a player other than its owner, no
\* step takes the owner out of players.
C5_OwnerStays ==
    [][\A l \in lobbies :
          (/\ l \in lobbies'
           /\ lobby[l].owner_id \in lobby[l].players
           /\ lobby[l].players # {lobby[l].owner_id})
          => lobby[l].owner_id \in lobby'[l].players]_vars

\* C6: when the lobby command of an owner registers its lobby, the active set
\* has gained exactly that lobby, its players are {owner}, its required count
\* is in 2..8, and both lookups return it: get_lobby_by_owner of its owner
\* and get_lobby_by_message of its announcement.
C6_CreatedAndRetrievable ==
    last.op = "lobby_add" =>
        LET l == last.arg
        IN /\ l \in lobbies
           /\ lobby[l].players = {lobby[l].owner_id}
           /\ lobby[l].required_players \in MinPlayers .. MaxPlayers
           /\ get_lobby_by_message(lobby[l].message) = {l}
           /\ get_lobby_by_owner(lobby[l].owner_id) = {l}

\* C7: a lobby command of an owner who has a lobby in the active set is
\* rejected: it sends the rejection, posts no announcement, starts no handler
\* and leaves the active set and every lobby (players, required_players,
\* timer) as they were.
C7_SecondOpenRejected ==
    [][(/\ last'.op = "lobby"
        /\ events' # events
        /\ get_lobby_by_owner(last'.who) # {None})
       => (/\ last'.sent = "reject"
           /\ UNCHANGED <<lobbies, lobby, built, posted, reactions, tasks, hist>>)]_vars

C7_Witness ==
    /\ last.op = "lobby" /\ last.sent = "reject"
    /\ get_lobby_by_owner(last.who) # {None}

\* ================================================================ tickets
Creating == {j \in BagToSet(jobs) : j.kind = "create"}

\* C8: ticket creation is all-or-nothing: every ticket channel that exists
\* has its row in tickets, unless the creation that made it is still on its
\* way to the INSERT; and every row is the row of a channel that was created.
C8_AllOrNothing ==
    /\ \A c \in channels :
          \/ \E r \in tickets : r.channel_id = c
          \/ \E j \in Creating : j.channel = c
    /\ \A r \in tickets : r.channel_id \in 1 .. made

\* C9: the ids drawn from the sequence are strictly increasing in the order
\* they were drawn, a creation in progress holds an id that was drawn, that no
\* other creation holds and that no row has, and no two rows of tickets share
\* an id or a channel_id.
C9_IdsUnique ==
    /\ \A i \in 1 .. Len(issued), k \in 1 .. Len(issued) : i < k => issued[i] < issued[k]
    /\ \A j \in Creating :
          /\ CopiesIn(j, jobs) = 1
          /\ \E i \in 1 .. Len(issued) : issued[i] = j.ticket_id
          /\ \A j2 \in Creating : j2.ticket_id = j.ticket_id => j2 = j
          /\ \A r \in tickets : r.id # j.ticket_id
    /\ \A r1 \in tickets, r2 \in tickets :
          (r1.id = r2.id \/ r1.channel_id = r2.channel_id) => r1 = r2

\* Two creations that overlapped: the one with the lower id got the later
\* channel.
C9_Witness ==
    \E r1 \in tickets, r2 \in tickets : r1.id < r2.id /\ r1.channel_id > r2.channel_id

\* C10: whatever close commands are handled for a ticket channel, with
\* create_log one archive is sent for the ticket, and it has been sent when
\* the channel is gone; without create_log none is sent.
C10_OneArchiveBeforeDelete ==
    \A r \in tickets :
        /\ logged[r.id] <= (IF create_log THEN 1 ELSE 0)
        /\ (create_log /\ r.channel_id \notin channels) => logged[r.id] = 1

\* C11: a close command on a channel that has no row in tickets does nothing:
\* when the handler that found no row goes on, it is over, no history has
\* been read and no archive sent, no channel is deleted and tickets is as it
\* was; and no close handler without a row is ever past the fetch.
C11_CloseWithoutRecordNoOp ==
    [][\A j \in BagToSet(jobs) :
          (j.kind = "close" /\ j.record = NoRecord) =>
             /\ j.pc = "fetchrow"
             /\ CopiesIn(j, jobs') < CopiesIn(j, jobs) =>
                   /\ jobs' = jobs (-) One(j)
                   /\ UNCHANGED <<channels, logged, tickets>>]_vars

\* A close command is being handled for a ticket channel that exists and has
\* no row: its creation never reached the INSERT or the INSERT failed.
C11_Witness ==
    \E j \in BagToSet(jobs) :
        /\ j.kind = "close" /\ j.record = NoRecord
        /\ j.channel \in channels
        /\ \A k \in Creating : k.channel # j.channel

\* ================================================================== roles
RolesNext ==
    \/ \E p \in RolePayloads : RolesOnRawReactionAdd(p)
             /\ UNCHANGED <<lobbyVars, ticketVars, logVars, lfgVars>>
    \/ \E p \in RolePayloads : RolesOnRawReactionRemove(p)
             /\ UNCHANGED <<lobbyVars, ticketVars, logVars, lfgVars>>

\* Roles on its own: every other cog is at rest.
RolesStart == LobbyStart

RolesSpec == RolesStart /\ [][RolesNext]_vars

\* C12: a reaction-add on the reaction message with an emoji whose role is
\* null, or that is no key of the mapping, takes the user's reaction off,
\* gives no role and raises nothing; with an emoji that has a role, that role
\* and no other is given to the user and the reaction stays; a reaction-add
\* on another message makes no gateway call.
C12_AddRevertsOrGrants ==
    [][LET l == roles_last'
           r == <<l.message, l.emoji, l.user>>
       IN  (rolesVars' # rolesVars /\ l.op = "add") =>
              IF l.message # reaction_message
              THEN l.call = "none" /\ UNCHANGED member_roles
              ELSE IF l.emoji \notin DOMAIN roles \/ roles[l.emoji] = None
              THEN /\ l.raised = "none"
                   /\ l.call = "remove_reaction"
                   /\ r \notin role_reactions'
                   /\ UNCHANGED member_roles
              ELSE /\ l.raised = "none"
                   /\ l.call = "add_role"
                   /\ member_roles' = member_roles \cup {<<l.user, roles[l.emoji]>>}
                   /\ r \in role_reactions']_vars

\* ============================================================= transcript
LogNext == GenerateLogStep /\ UNCHANGED <<lobbyVars, ticketVars, rolesVars, lfgVars>>

\* _generate_log on its own, for every history of a channel.
LogStart == LobbyInit /\ TicketInit(TRUE) /\ RolesInit /\ LfgInit /\ LogInit

LogSpec == LogStart /\ [][LogNext]_vars

\* The lines of transcript.txt that come from messages, by message id
Body == SelectSeq(archive.transcript, LAMBDA line : line.message # 0)

\* The position, from 0, of the a-th attachment of the m-th message among
\* all attachments in message order then attachment order
RECURSIVE Before(_, _)
Before(m, a) ==
    IF m = 1 THEN a - 1
    ELSE Len(channel_history[m - 1].attachments) + Before(m - 1, a)

\* The attachments are in the archive one entry each, named by their
\* position among all attachments and the extension of their filename.
EntriesByPosition ==
    /\ Len(archive.entries) = Before(Len(channel_history) + 1, 1)
    /\ \A m \in 1 .. Len(channel_history) :
          \A a \in 1 .. Len(channel_history[m].attachments) :
              LET entry == archive.entries[Before(m, a) + 1]
                  name == channel_history[m].attachments[a]
              IN  /\ entry.index = Before(m, a)
                  /\ entry.ext = (IF name = <<"a", ".", "b">> THEN <<".", "b">> ELSE << >>)

IssueTexts == {NoIssue, 5, IssueLimit, IssueLimit + 5}

\* Tickets are opened by command, with any of the issue texts, and created.
CreateNext ==
    \/ \E author \in Authors, issue \in IssueTexts :
          OnOpenCommand(author, issue) /\ UNCHANGED <<lobbyVars, cogVars>>
    \/ \E j \in BagToSet(jobs) : CreateTextChannel(j) /\ UNCHANGED <<lobbyVars, cogVars>>
    \/ \E j \in BagToSet(jobs) : InsertTicket(j) /\ UNCHANGED <<lobbyVars, cogVars>>

CreateSpec == Init /\ [][CreateNext]_vars

\* C14: whatever the length of the issue text, the row a creation inserts
\* holds the first 90 characters of the text, the whole text when it is
\* shorter, and the name of the channel of the row begins with the ticket id
\* that was allocated for this creation, which is the id of the row.
C14_IssueTruncatedNameHasId ==
    [][\A j \in Creating :
          (j.pc = "create_text_channel" /\ CopiesIn(j, jobs') < CopiesIn(j, jobs)
             /\ tickets' # tickets) =>
             \E r \in tickets' \ tickets :
                 /\ tickets' = tickets \cup {r}
                 /\ r.issue = (IF j.issue <= IssueLimit THEN j.issue ELSE IssueLimit)
                 /\ r.id = j.ticket_id
                 /\ j.ticket_id \in {issued[i] : i \in 1 .. Len(issued)}
                 /\ names[r.channel_id] = r.id]_vars

\* Two rows: one of an issue text longer than the limit, one of a shorter one.
C14_Witness ==
    \E r1 \in tickets, r2 \in tickets :
        /\ r1.issue = IssueLimit /\ r2.issue = 5
        /\ names[r1.channel_id] = r1.id /\ names[r2.channel_id] = r2.id

\* ========================================================= lobby reactions
\* C15: when the owner, being in players, reacts on the announcement of their
\* tracked lobby, the owner's reaction is taken off the message, players is
\* unchanged, no fullness check runs and the bot's own reaction stays where
\* it was; any other actor is added to players.
C15_OwnerReactionReverted ==
    [][(events' # events /\ last'.op \in {"add_owner", "add_first", "add_full", "add_join"}) =>
          LET l == last'.arg
              m == lobby[l].message
          IN  IF last'.op = "add_owner"
              THEN /\ last'.who \notin reactions'[m]
                   /\ UNCHANGED <<lobby, lobbies, tasks, hist>>
                   /\ (client_id \in reactions'[m]) = (client_id \in reactions[m])
              ELSE last'.who \in lobby'[l].players]_vars

\* C16: every reaction-remove with the join emoji on the announcement of a
\* tracked lobby, by a user in players or not, raises nothing, leaves the
\* user out of players and every other player in, and puts the bot's
\* reaction back exactly when players has become empty.
C16_RemoveNeverRaises ==
    [][(events' # events /\ last'.op = "remove" /\ last'.arg # None) =>
          LET l == last'.arg
              m == lobby[l].message
          IN  /\ last'.raised = "none"
              /\ lobby'[l].players = lobby[l].players \ {last'.who}
              /\ IF lobby'[l].players = {}
                 THEN client_id \in reactions'[m]
                 ELSE (client_id \in reactions'[m]) = (client_id \in reactions[m])]_vars

\* Lobbies of three: the owner opens lobbies for three players and the users
\* react on the announcements; with fewer than three users none gets full.
Lobby3Next ==
    \/ \E author \in Authors :
          LobbyCommand(author, beta_channel, MinPlayers + 1)
             /\ UNCHANGED <<ticketVars, cogVars>>
    \/ \E t \in Suspended : LobbyCommandAdd(t) /\ UNCHANGED <<ticketVars, cogVars>>
    \/ \E p \in Payloads : OnRawReactionAdd(p) /\ UNCHANGED <<ticketVars, cogVars>>
    \/ \E p \in Payloads : OnRawReactionRemove(p) /\ UNCHANGED <<ticketVars, cogVars>>

Lobby3Spec == LobbyStart /\ [][Lobby3Next]_vars

\* C17: the bot's own join reaction is removed on the first processed join
\* of a lobby: when the first event handled after a lobby (players = {owner})
\* was registered is a reaction-add by a non-owner on its announcement, the
\* bot's reaction is off the announcement after it.
C17_FirstJoinRemovesBotReaction ==
    [][(/\ last.op = "lobby_add"
        /\ events' # events
        /\ last'.op \in {"add_first", "add_join", "add_full"}
        /\ last'.arg = last.arg
        /\ last'.who # lobby[last.arg].owner_id) =>
          client_id \notin reactions'[lobby[last.arg].message]]_vars

\* ============================================================ lobby command
InRange(players) == players >= MinPlayers /\ players <= MaxPlayers

\* C18 as stated: a lobby command with a player count below 2 or above 8
\* does nothing in any state: no lobby is added, no timer started and no
\* message sent; and every lobby in the active set has required_players in
\* 2..8.
C18_OutOfRangeSilent ==
    /\ [](\A l \in lobbies : InRange(lobby[l].required_players))
    /\ [][(events' # events /\ last'.op = "lobby") => InRange(last'.arg)]_vars

\* C18, amended: a lobby command with a player count below 2 or above 8 adds
\* no lobby and starts no timer in any state; it sends no message when the
\* author has no active lobby, and the request to disband the old lobby, as
\* for any count, when the author has one; and every lobby in the active set
\* has required_players in 2..8.
C18_OutOfRangeNoLobby ==
    /\ [](/\ \A l \in lobbies : InRange(lobby[l].required_players)
          /\ \A l \in 1 .. built : InRange(lobby[l].required_players)
          /\ \A t \in Suspended : t.kind = "lobby" => InRange(t.players))
    /\ [][(events' # events /\ last'.op = "lobby" /\ ~InRange(last'.arg)) =>
             /\ get_lobby_by_owner(last'.who) # {None}
             /\ last'.sent = "reject"
             /\ UNCHANGED <<lobbies, lobby, built, posted, reactions, tasks, hist>>]_vars

\* An out-of-range command of an owner who has a lobby has been answered.
C18_Witness ==
    /\ last.op = "lobby" /\ ~InRange(last.arg) /\ last.sent = "reject"
    /\ \E l \in lobbies : lobby[l].owner_id = last.who /\ InRange(lobby[l].required_players)

\* ============================================================ lobby expiry
\* The timeout task of a Lobby is a task of the event loop: once its sleep of
\* six hours is over the loop runs it, unless it was cancelled before.
\* The events that decide how a lobby ends: lobbies are opened for two
\* players, a user who is not the owner puts the join emoji on announcements
\* and takes it off, the owner disbands, timers fire.
Joiners == {CHOOSE u \in Users : u \notin Authors}

JoinPayloads ==
    [channel_id : {beta_channel}, user_id : Joiners, emoji : {high5_emoji},
     message_id : MessageIds]

ExpiryNext ==
    \/ \E author \in Authors :
          LobbyCommand(author, beta_channel, MinPlayers)
             /\ UNCHANGED <<ticketVars, cogVars>>
    \/ \E t \in Suspended : LobbyCommandAdd(t) /\ UNCHANGED <<ticketVars, cogVars>>
    \/ \E author \in Authors :
          LobbyDisband(author, beta_channel) /\ UNCHANGED <<ticketVars, cogVars>>
    \/ \E l \in LobbyIds : TimeoutFire(l) /\ UNCHANGED <<ticketVars, cogVars>>
    \/ \E p \in JoinPayloads : OnRawReactionAdd(p) /\ UNCHANGED <<ticketVars, cogVars>>
    \/ \E t \in Suspended : FullStep(t) /\ UNCHANGED <<ticketVars, cogVars>>
    \/ \E p \in JoinPayloads : OnRawReactionRemove(p) /\ UNCHANGED <<ticketVars, cogVars>>

FairLobbySpec ==
    /\ LobbyStart
    /\ [][ExpiryNext]_vars
    /\ WF_vars(\E l \in LobbyIds : TimeoutFire(l) /\ UNCHANGED <<ticketVars, cogVars>>)

\* C19: every lobby that enters the active set leaves it in the end: while it
\* is in the set its timer is pending, and if the lobby is not filled or
\* disbanded by its owner before, the timer fires, disbands the lobby as
\* timed out and so removes it from the set.
C19_EveryLobbyLeaves ==
    /\ [](\A l \in lobbies : lobby[l].timeout = "sleeping")
    /\ [][\A l \in lobbies :
             (lobby'[l].timeout # "sleeping") =>
                 /\ l \notin lobbies'
                 /\ hist'[l].disband_sent = hist[l].disband_sent + 1
                 /\ lobby'[l].timeout = "cancelled"
                      => (last'.op = "disband" /\ last'.arg = l)
                 /\ lobby'[l].timeout # "cancelled"
                      => (last' = Did("timeout", 0, l, "none", "none")
                          /\ lobby'[l].timeout = "done")]_vars
    /\ \A l \in LobbyIds : (l \in lobbies) ~> (l \notin lobbies)

\* A lobby was neither filled nor disbanded by its owner, and its timer has
\* disbanded it.
C19_Witness ==
    \E l \in 1 .. built :
        /\ l \notin lobbies
        /\ lobby[l].timeout = "done"
        /\ hist[l] = [full_sent |-> 0, disband_sent |-> 1]
        /\ last = Did("timeout", 0, l, "none", "none")

\* ==================================================================== lfg
LfgNext ==
    \/ LfgPost /\ UNCHANGED <<lobbyVars, ticketVars, rolesVars, logVars>>
    \/ \E m \in 1 .. MaxMessages :
          LfgPin(m) /\ UNCHANGED <<lobbyVars, ticketVars, rolesVars, logVars>>
    \/ \E m \in 1 .. MaxMessages :
          LfgUnpin(m) /\ UNCHANGED <<lobbyVars, ticketVars, rolesVars, logVars>>
    \/ \E resolves \in BOOLEAN :
          ClearLfgChannel(resolves) /\ UNCHANGED <<lobbyVars, ticketVars, rolesVars, logVars>>
    \/ ClearPins /\ UNCHANGED <<lobbyVars, ticketVars, rolesVars, logVars>>
    \/ ClearHistory /\ UNCHANGED <<lobbyVars, ticketVars, rolesVars, logVars>>
    \/ \E m \in 1 .. MaxMessages :
          ClearPurge(m) /\ UNCHANGED <<lobbyVars, ticketVars, rolesVars, logVars>>
    \/ ClearDone /\ UNCHANGED <<lobbyVars, ticketVars, rolesVars, logVars>>

\* LFG on its own: every other cog is at rest.
LfgStart == LobbyStart

LfgSpec == LfgStart /\ [][LfgNext]_vars

\* C20: a run whose channel resolves never deletes a message that is pinned
\* when it is deleted, also when it was pinned after the run fetched the
\* pins, and when the run is over every message its purge saw is deleted
\* unless it is pinned; a run whose channel does not resolve deletes nothing
\* and leaves the loop waiting for its next run.
C20_PinnedNeverDeleted ==
    /\ [][\A m \in lfg_messages \ lfg_messages' : m \notin lfg_pins]_vars
    /\ [][(janitor.pc = "purge" /\ janitor'.pc = "sleep") =>
             \A m \in janitor.seen \cap lfg_messages' : m \in lfg_pins']_vars
    /\ [][(lfg_runs' # lfg_runs /\ janitor'.outcome = "unresolved") =>
             (lfg_messages' = lfg_messages /\ janitor'.pc = "sleep")]_vars

\* ============================================================ lobby crowd
\* One user more than the smallest lobby holds: the owner and two others.
Crowd == 1 .. MinPlayers + 1

CrowdPayloads ==
    [channel_id : {beta_channel}, user_id : Crowd \ Authors, emoji : {high5_emoji},
     message_id : MessageIds]

\* The owner opens lobbies for two players and the others put the join emoji
\* on the announcements; the fullness handlers go on after their awaits.
CrowdNext ==
    \/ \E author \in Authors :
          LobbyCommand(author, beta_channel, MinPlayers)
             /\ UNCHANGED <<ticketVars, cogVars>>
    \/ \E t \in Suspended : LobbyCommandAdd(t) /\ UNCHANGED <<ticketVars, cogVars>>
    \/ \E p \in CrowdPayloads : OnRawReactionAdd(p) /\ UNCHANGED <<ticketVars, cogVars>>
    \/ \E t \in Suspended : FullStep(t) /\ UNCHANGED <<ticketVars, cogVars>>

CrowdSpec == LobbyStart /\ [][CrowdNext]_vars

\* C21: in every reachable state every lobby in the active set has at most
\* required_players members in players, also while a fullness handler is
\* suspended between detecting fullness and removing the lobby and another
\* reaction-add on the same announcement is handled.
C21_PlayersWithinRequired ==
    \A l \in lobbies : Cardinality(lobby[l].players) <= lobby[l].required_players
====
